---- MODULE Spec2Model ----
(***************************************************************************)
(* Model of the trollup sequencer (trollup-sequencer/src/main.rs): the     *)
(* run_node loop, validate_tx and apply_tx.                                *)
(*                                                                         *)
(* run_node is modelled as a state machine over the positions of its loop  *)
(* body.  Everything between two suspension points of the loop that no     *)
(* other task can observe is one action.                                   *)
(***************************************************************************)
EXTENDS Integers, Sequences, FiniteSets

(***************************************************************************)
(* Bounds of the model.                                                    *)
(***************************************************************************)
\* largest minimum batch size explored (the shipped value is MIN_TX_BLOCK)
MaxMinTxBlock == 2
\* largest nonce a submitted transaction carries
MaxNonce == 2
\* largest value a submitted transaction carries
MaxValue == 1
\* largest balance the genesis snapshot gives the funded account
MaxGenesisBalance == 1
\* largest value of the scaled-down unsigned balance type (U256 in the code)
MaxU256 == 3
\* number of transactions the intake channel delivers over a run
MaxRecv == 3

(***************************************************************************)
(* Program constants.                                                      *)
(***************************************************************************)
MIN_TX_BLOCK == 1

Modulus == MaxU256 + 1

PublicKeys == {"pkA", "pkB"}
Addresses == {"A", "B", "C"}
TxKind == {"Transfer", "Deposit", "Withdraw"}

\* PublicKey::address(): the address derived from a public key
address(pk) == IF pk = "pkA" THEN "A" ELSE "B"

\* Account::new(address, balance, nonce); the address is the key of the map
Account(balance, nonce) == [balance |-> balance, nonce |-> nonce]

ZeroAccount == Account(0, 0)

\* State::get: the account of an address, the zero account when unknown
get(st, addr) == st[addr]

\* State::update: a snapshot with one account replaced
update(st, addr, acc) == [st EXCEPT ![addr] = acc]

\* unsigned arithmetic of the balance type, by what a wrapping build computes
U256Sub(a, b) == (a - b + Modulus) % Modulus
U256Add(a, b) == (a + b) % Modulus

\* Tx / SignedTx: the signature blob is abstracted to whether it verifies
Tx(kind, sender, to, nonce, value, sig) ==
    [kind |-> kind, sender |-> sender, to |-> to, nonce |-> nonce,
     value |-> value, signature |-> sig]

\* the transactions the intake channel may deliver: every signed transfer
\* within the bounds, and for every pair of keys one transfer whose
\* signature does not verify
IntakeTxs ==
    { Tx("Transfer", s, t, n, v, TRUE) :
        s \in PublicKeys, t \in PublicKeys, n \in 1..MaxNonce,
        v \in 0..MaxValue }
    \cup
    { Tx("Transfer", s, t, MaxNonce, 0, FALSE) :
        s \in PublicKeys, t \in PublicKeys }

\* trollup_signature::verify_tx_signature
verify_tx_signature(tx) == tx.signature

validate_tx_self_last(st, tx) ==
    LET account == get(st, address(tx.sender)) IN
    IF ~verify_tx_signature(tx) THEN "Bad signature"
    ELSE IF account.balance < tx.value THEN "Insufficient balance"
    ELSE IF account.nonce >= tx.nonce THEN "Nonce too low"
    ELSE IF tx.sender = tx.to THEN "Tx to self"
    ELSE "Ok"

\* validate_tx: the error of the first failing check, "Ok" when none fails
validate_tx(st, tx) ==
    LET account == get(st, address(tx.sender)) IN
    IF ~verify_tx_signature(tx) THEN "Bad signature"
    ELSE IF tx.sender = tx.to THEN "Tx to self"
    ELSE IF account.balance < tx.value THEN "Insufficient balance"
    ELSE IF account.nonce >= tx.nonce THEN "Nonce too low"
    ELSE "Ok"

apply_tx_touch_all(st, tx) ==
    LET sender_addr == address(tx.sender)
        to_addr == address(tx.to)
        account_sender == get(st, sender_addr)
        account_to == get(st, to_addr)
        s1 == update(st, sender_addr,
                     Account(U256Sub(account_sender.balance, tx.value), tx.nonce))
        s2 == update(s1, to_addr,
                     Account(U256Add(account_to.balance, tx.value), account_to.nonce))
    IN [a \in Addresses |->
          IF a \in {sender_addr, to_addr} THEN s2[a]
          ELSE Account(s2[a].balance, tx.nonce)]

apply_tx_deposit_mints(st, tx) ==
    LET sender_addr == address(tx.sender)
        to_addr == address(tx.to)
        account_sender == get(st, sender_addr)
        account_to == get(st, to_addr)
        new_account_sender ==
            IF tx.kind = "Deposit"
            THEN Account(account_sender.balance, tx.nonce)
            ELSE Account(U256Sub(account_sender.balance, tx.value), tx.nonce)
        new_account_to ==
            Account(U256Add(account_to.balance, tx.value), account_to.nonce)
    IN update(update(st, sender_addr, new_account_sender),
              to_addr, new_account_to)

\* apply_tx: debit the sender and set its nonce, credit the recipient
apply_tx(st, tx) ==
    LET sender_addr == address(tx.sender)
        to_addr == address(tx.to)
        account_sender == get(st, sender_addr)
        account_to == get(st, to_addr)
        new_account_sender ==
            Account(U256Sub(account_sender.balance, tx.value), tx.nonce)
        new_account_to ==
            Account(U256Add(account_to.balance, tx.value), account_to.nonce)
    IN update(update(st, sender_addr, new_account_sender),
              to_addr, new_account_to)

\* the subtraction or the addition of apply_tx leaves the range of the type
apply_tx_overflows(st, tx) ==
    \/ get(st, address(tx.sender)).balance < tx.value
    \/ get(st, address(tx.to)).balance + tx.value > MaxU256


RECURSIVE FilterValidTakeWhile(_, _)
FilterValidTakeWhile(st, pool) ==
    IF pool = << >> THEN << >>
    ELSE IF validate_tx(st, Head(pool)) = "Ok"
         THEN << Head(pool) >> \o FilterValidTakeWhile(st, Tail(pool))
         ELSE << >>

RECURSIVE FilterValid(_, _)
\* drain(..).filter(|tx| validate_tx(&state, tx).is_ok()).collect()
FilterValid(st, pool) ==
    IF pool = << >> THEN << >>
    ELSE IF validate_tx(st, Head(pool)) = "Ok"
         THEN << Head(pool) >> \o FilterValid(st, Tail(pool))
         ELSE FilterValid(st, Tail(pool))

RECURSIVE Chain(_, _)
\* states = vec![state]; for tx in &txs { states.push(apply_tx(last, tx)) }
Chain(sts, batch) ==
    IF batch = << >> THEN sts
    ELSE Chain(Append(sts, apply_tx(sts[Len(sts)], Head(batch))), Tail(batch))

\* some apply_tx of the fold leaves the range of the balance type
ChainOverflows(st, batch) ==
    LET chain == Chain(<< st >>, batch) IN
    \E i \in 1..Len(batch) : apply_tx_overflows(chain[i], batch[i])

RequestsPostOnly(chain, batch) ==
    [i \in 1..Len(batch) |->
        [tx |-> batch[i], pre |-> chain[i + 1], post |-> chain[i + 1]]]

\* states.windows(2).zip(txs.iter()): the arguments of request_proof for
\* each adjacent pair of snapshots and its transaction
Requests(chain, batch) ==
    [i \in 1..Len(batch) |->
        [tx |-> batch[i], pre |-> chain[i], post |-> chain[i + 1]]]

JoinTargetByCompletion(k, completion) ==
    IF k <= Len(completion) THEN completion[k] ELSE k

\* for task in tasks { proofs.push(task.await.unwrap()) }: the k-th await is
\* on the k-th spawned task, whatever the order of completion
JoinTarget(k, completion) == k

VARIABLES
    pc,         \* position of run_node in its loop
    threshold,  \* the configured minimum batch size
    genesis,    \* the snapshot the loop started from
    state,      \* the authoritative snapshot
    mempool,    \* the buffered transactions
    received,   \* number of transactions taken from the intake channel
    dropped,    \* number of transactions the last drain discarded
    txs,        \* the admitted transactions of the batch
    states,     \* the snapshot chain of the batch
    tasks,      \* outcome of each spawned proof task, "pending" until resolved
    order,      \* the spawned tasks in the order they resolved
    proofs,     \* the results collected by the join loop
    idx,        \* position of the submit loop in proofs
    submitted,  \* the proofs sent to the settlement layer in this iteration
    requests,   \* the arguments of each proof request of the batch
    inflight,   \* the submissions sent and not yet answered
    lastPost,   \* post snapshot of the last proof request launched so far
    vstate, vtx, verdict, vpost  \* input and output of a single function call

vars == << pc, threshold, genesis, state, mempool, received, dropped, txs,
           states, tasks, order, proofs, idx, submitted, requests, inflight,
           lastPost, vstate, vtx, verdict, vpost >>

loopLocals == << txs, states, tasks, order, proofs, idx, submitted,
                requests, inflight >>
pureVars == << vstate, vtx, verdict, vpost >>

NoTx == Tx("Transfer", "pkA", "pkA", 0, 0, FALSE)

\* State::default() / the genesis supplied at startup: one funded account
GenesisStates ==
    { [a \in Addresses |->
         IF a = "A" THEN Account(b, 0)
         ELSE IF a = "C" THEN Account(1, 0)
         ELSE ZeroAccount] : b \in 0..MaxGenesisBalance }

ResetLocals ==
    /\ txs' = << >>
    /\ states' = << >>
    /\ tasks' = << >>
    /\ order' = << >>
    /\ proofs' = << >>
    /\ idx' = 1
    /\ submitted' = << >>
    /\ requests' = << >>
    /\ inflight' = {}

Init ==
    /\ pc = "AwaitingTx"
    /\ threshold \in MIN_TX_BLOCK..MaxMinTxBlock
    /\ genesis \in GenesisStates
    /\ state = genesis
    /\ mempool = << >>
    /\ received = 0
    /\ dropped = 0
    /\ txs = << >>
    /\ states = << >>
    /\ tasks = << >>
    /\ order = << >>
    /\ proofs = << >>
    /\ idx = 1
    /\ submitted = << >>
    /\ requests = << >>
    /\ inflight = {}
    /\ lastPost = genesis
    /\ vstate = genesis
    /\ vtx = NoTx
    /\ verdict = "none"
    /\ vpost = genesis

\* rx.recv() yields a transaction, the root read succeeds and the
\* transaction is pushed; below the threshold the loop continues
Intake(tx) ==
    /\ pc = "AwaitingTx"
    /\ received < MaxRecv
    /\ received' = received + 1
    /\ mempool' = Append(mempool, tx)
    /\ pc' = IF Len(mempool') < threshold THEN "AwaitingTx" ELSE "Batching"
    /\ UNCHANGED << threshold, genesis, lastPost, state, dropped >>
    /\ UNCHANGED loopLocals
    /\ UNCHANGED pureVars

DrainKeepRejected ==
    /\ pc = "Batching"
    /\ txs' = FilterValid(state, mempool)
    /\ mempool' = SelectSeq(mempool, LAMBDA t : validate_tx(state, t) # "Ok")
    /\ dropped' = Len(mempool) - Len(txs')
    /\ pc' = "Transitioning"
    /\ UNCHANGED << threshold, genesis, lastPost, state, received, states,
                    tasks, order, proofs, idx, submitted, requests, inflight >>
    /\ UNCHANGED pureVars

\* the mempool is drained and filtered against the authoritative snapshot
Drain ==
    /\ pc = "Batching"
    /\ txs' = FilterValid(state, mempool)
    /\ mempool' = << >>
    /\ dropped' = Len(mempool) - Len(txs')
    /\ pc' = "Transitioning"
    /\ UNCHANGED << threshold, genesis, lastPost, state, received, states,
                    tasks, order, proofs, idx, submitted, requests, inflight >>
    /\ UNCHANGED pureVars

\* rx.recv() yields a transaction and l1_contract.root().call() fails: unwrap
IntakeRootFail ==
    /\ pc = "AwaitingTx"
    /\ received < MaxRecv
    /\ received' = received + 1
    /\ pc' = "panicked"
    /\ UNCHANGED << threshold, genesis, lastPost, state, mempool, dropped >>
    /\ UNCHANGED loopLocals
    /\ UNCHANGED pureVars

\* rx.recv() yields None: the channel is closed and empty, run_node returns Ok
ChannelClosed ==
    /\ pc = "AwaitingTx"
    /\ pc' = "done"
    /\ UNCHANGED << threshold, genesis, lastPost, state, mempool, received,
                    dropped >>
    /\ UNCHANGED loopLocals
    /\ UNCHANGED pureVars

TransitionKeepState ==
    /\ pc = "Transitioning"
    /\ states' = Chain(<< state >>, txs)
    /\ requests' = Requests(states', txs)
    /\ tasks' = [i \in 1..Len(requests') |-> "pending"]
    /\ lastPost' = IF requests' = << >> THEN lastPost
                   ELSE requests'[Len(requests')].post
    /\ pc' = "Proving"
    /\ UNCHANGED << threshold, genesis, state, mempool, received, dropped,
                    txs, order, proofs, idx, submitted, inflight >>
    /\ UNCHANGED pureVars

\* the fold of apply_tx over the batch, the new authoritative snapshot, and
\* one spawned proof task per transaction
Transition ==
    /\ pc = "Transitioning"
    /\ states' = Chain(<< state >>, txs)
    /\ state' = states'[Len(states')]
    /\ requests' = Requests(states', txs)
    /\ tasks' = [i \in 1..Len(requests') |-> "pending"]
    /\ lastPost' = IF requests' = << >> THEN lastPost
                   ELSE requests'[Len(requests')].post
    /\ pc' = "Proving"
    /\ UNCHANGED << threshold, genesis, mempool, received, dropped, txs,
                    order, proofs, idx, submitted, inflight >>
    /\ UNCHANGED pureVars

\* the fold where the balance arithmetic of a build that checks it panics
TransitionPanic ==
    /\ pc = "Transitioning"
    /\ ChainOverflows(state, txs)
    /\ pc' = "panicked"
    /\ UNCHANGED << threshold, genesis, lastPost, state, mempool, received,
                    dropped >>
    /\ UNCHANGED loopLocals
    /\ UNCHANGED pureVars

\* proof task i resolves: Ok(proof), Err(message), or the task panics
ProofResolve(i, outcome) ==
    /\ pc = "Proving"
    /\ i \in 1..Len(tasks)
    /\ tasks[i] = "pending"
    /\ tasks' = [tasks EXCEPT ![i] = outcome]
    /\ order' = Append(order, i)
    /\ UNCHANGED << pc, threshold, genesis, lastPost, state, mempool, received,
                    dropped, txs, states, proofs, idx, submitted, requests,
                    inflight >>
    /\ UNCHANGED pureVars

\* one iteration of the join loop: task.await.unwrap()
Join ==
    /\ pc = "Proving"
    /\ Len(proofs) < Len(tasks)
    /\ LET k == Len(proofs) + 1
           t == JoinTarget(k, order) IN
       /\ tasks[t] # "pending"
       /\ IF tasks[t] = "Panic"
          THEN /\ pc' = "panicked"
               /\ UNCHANGED proofs
          ELSE /\ proofs' = Append(proofs, [request |-> t, result |-> tasks[t]])
               /\ UNCHANGED pc
    /\ UNCHANGED << threshold, genesis, lastPost, state, mempool, received,
                    dropped, txs, states, tasks, order, idx, submitted,
                    requests, inflight >>
    /\ UNCHANGED pureVars

JoinDoneOnFirst ==
    /\ pc = "Proving"
    /\ Len(proofs) >= 1 \/ Len(tasks) = 0
    /\ pc' = "Submitting"
    /\ UNCHANGED << threshold, genesis, lastPost, state, mempool, received,
                    dropped >>
    /\ UNCHANGED loopLocals
    /\ UNCHANGED pureVars

\* the join loop has awaited every task
JoinDone ==
    /\ pc = "Proving"
    /\ Len(proofs) = Len(tasks)
    /\ pc' = "Submitting"
    /\ UNCHANGED << threshold, genesis, lastPost, state, mempool, received,
                    dropped >>
    /\ UNCHANGED loopLocals
    /\ UNCHANGED pureVars

SubmitSkipRollback ==
    /\ pc = "Submitting"
    /\ idx <= Len(proofs)
    /\ proofs[idx].result = "Err"
    /\ idx' = idx + 1
    /\ state' = states[1]
    /\ UNCHANGED << pc, threshold, genesis, lastPost, mempool, received,
                    dropped, txs, states, tasks, order, proofs, submitted,
                    requests, inflight >>
    /\ UNCHANGED pureVars

\* one iteration of the submit loop on an Err result: print and go on
SubmitSkip ==
    /\ pc = "Submitting"
    /\ idx <= Len(proofs)
    /\ proofs[idx].result = "Err"
    /\ idx' = idx + 1
    /\ UNCHANGED << pc, threshold, genesis, lastPost, state, mempool, received,
                    dropped, txs, states, tasks, order, proofs, submitted,
                    requests, inflight >>
    /\ UNCHANGED pureVars

SubmitSendNoAwait ==
    /\ pc = "Submitting"
    /\ idx <= Len(proofs)
    /\ proofs[idx].result = "Ok"
    /\ inflight' = inflight \cup {idx}
    /\ idx' = idx + 1
    /\ UNCHANGED << pc, threshold, genesis, lastPost, state, mempool, received,
                    dropped, txs, states, tasks, order, proofs, submitted,
                    requests >>
    /\ UNCHANGED pureVars

\* one iteration of the submit loop on an Ok result: submit_block([proof])
\* is sent and awaited
SubmitSend ==
    /\ pc = "Submitting"
    /\ idx <= Len(proofs)
    /\ proofs[idx].result = "Ok"
    /\ inflight' = inflight \cup {idx}
    /\ pc' = "AwaitingAck"
    /\ UNCHANGED << threshold, genesis, lastPost, state, mempool, received,
                    dropped, txs, states, tasks, order, proofs, idx, submitted,
                    requests >>
    /\ UNCHANGED pureVars

\* the settlement layer acknowledges the submission
SubmitAck ==
    /\ pc = "AwaitingAck"
    /\ submitted' = Append(submitted, << proofs[idx] >>)
    /\ inflight' = inflight \ {idx}
    /\ idx' = idx + 1
    /\ pc' = "Submitting"
    /\ UNCHANGED << threshold, genesis, lastPost, state, mempool, received,
                    dropped, txs, states, tasks, order, proofs, requests >>
    /\ UNCHANGED pureVars

\* the submission fails: send().await.unwrap()
SubmitFail ==
    /\ pc = "AwaitingAck"
    /\ pc' = "panicked"
    /\ UNCHANGED << threshold, genesis, lastPost, state, mempool, received,
                    dropped >>
    /\ UNCHANGED loopLocals
    /\ UNCHANGED pureVars

\* the submit loop is over: the locals of the iteration are dropped and the
\* loop awaits the next transaction
SubmitDone ==
    /\ pc = "Submitting"
    /\ idx > Len(proofs)
    /\ pc' = "AwaitingTx"
    /\ ResetLocals
    /\ UNCHANGED << threshold, genesis, lastPost, state, mempool, received,
                    dropped >>
    /\ UNCHANGED pureVars

Next ==
    \/ \E tx \in IntakeTxs : Intake(tx)
    \/ IntakeRootFail
    \/ ChannelClosed
    \/ Drain
    \/ Transition
    \/ TransitionPanic
    \/ \E i \in 1..MaxMinTxBlock, o \in {"Ok", "Err", "Panic"} : ProofResolve(i, o)
    \/ Join
    \/ JoinDone
    \/ SubmitSkip
    \/ SubmitSend
    \/ SubmitAck
    \/ SubmitFail
    \/ SubmitDone

Spec == Init /\ [][Next]_vars


\* the steps of the run_node task once a batch is cut
LoopStep ==
    \/ Drain
    \/ Transition
    \/ TransitionPanic
    \/ Join
    \/ JoinDone
    \/ SubmitSkip
    \/ SubmitSend
    \/ SubmitDone

\* the steps of the spawned proof tasks and of the settlement layer
EnvStep ==
    \/ \E i \in 1..MaxMinTxBlock, o \in {"Ok", "Err", "Panic"} : ProofResolve(i, o)
    \/ SubmitAck
    \/ SubmitFail

\* the runtime keeps running a task that can run, every proof request
\* resolves and every submission is answered
SpecFair == Spec /\ WF_vars(LoopStep) /\ WF_vars(EnvStep)

(***************************************************************************)
(* Single calls of validate_tx and apply_tx on inputs drawn from bounded   *)
(* sets.                                                                   *)
(***************************************************************************)
\* the snapshots a call may be given
CallSnapshots ==
    { [a \in Addresses |->
         IF a = "A" THEN Account(ba, na)
         ELSE IF a = "B" THEN Account(bb, nb)
         ELSE Account(1, 0)] :
        ba \in 0..MaxU256, bb \in 0..MaxU256,
        na \in 0..MaxNonce, nb \in 0..MaxNonce }

\* the transactions a call may be given
CallTxs ==
    { Tx(k, s, t, n, v, g) :
        k \in TxKind, s \in PublicKeys, t \in PublicKeys, n \in 0..MaxNonce,
        v \in 0..(MaxValue + 1), g \in BOOLEAN }

InitCall ==
    /\ pc = "call"
    /\ threshold = MIN_TX_BLOCK
    /\ vstate \in CallSnapshots
    /\ vtx \in CallTxs
    /\ verdict = "none"
    /\ vpost = vstate
    /\ genesis = vstate
    /\ state = vstate
    /\ mempool = << >>
    /\ received = 0
    /\ dropped = 0
    /\ txs = << >>
    /\ states = << >>
    /\ tasks = << >>
    /\ order = << >>
    /\ proofs = << >>
    /\ idx = 1
    /\ submitted = << >>
    /\ requests = << >>
    /\ inflight = {}
    /\ lastPost = genesis

\* validate_tx(&vstate, &vtx)
CallValidate ==
    /\ pc = "call"
    /\ verdict' = validate_tx(vstate, vtx)
    /\ pc' = "validated"
    /\ UNCHANGED << threshold, genesis, lastPost, state, mempool, received, dropped,
                    vstate, vtx, vpost >>
    /\ UNCHANGED loopLocals

\* apply_tx(vstate.clone(), &vtx)
CallApply ==
    /\ pc = "validated"
    /\ vpost' = apply_tx(vstate, vtx)
    /\ pc' = "applied"
    /\ UNCHANGED << threshold, genesis, lastPost, state, mempool, received, dropped,
                    vstate, vtx, verdict >>
    /\ UNCHANGED loopLocals

\* apply_tx on a build whose balance arithmetic panics when it overflows
CallApplyPanic ==
    /\ pc = "validated"
    /\ apply_tx_overflows(vstate, vtx)
    /\ pc' = "panicked"
    /\ UNCHANGED << threshold, genesis, lastPost, state, mempool, received,
                    dropped >>
    /\ UNCHANGED loopLocals
    /\ UNCHANGED pureVars

NextCall == CallValidate \/ CallApply \/ CallApplyPanic

SpecCall == InitCall /\ [][NextCall]_vars

(***************************************************************************)
(* Properties.                                                             *)
(***************************************************************************)
Total(st) == st["A"].balance + st["B"].balance + st["C"].balance

\* the chain of the batch has been computed
ChainComputed == Len(states) = Len(txs) + 1

\* C1: the transactions of one sender that are applied carry strictly
\* increasing nonces in the order they are applied: every transaction of a
\* chain is applied to a snapshot in which its sender's nonce, the nonce of
\* the sender's previously applied transaction, is below its own.
C1_NoncesStrictlyIncreasing ==
    ChainComputed =>
        \A i \in 1..Len(txs) :
            get(states[i], address(txs[i].sender)).nonce < txs[i].nonce

\* C2: every debit of a chain is applied to a sender whose balance in the
\* snapshot being transformed is at least the value of the transaction.
C2_DebitNeverUnderflows ==
    ChainComputed =>
        \A i \in 1..Len(txs) :
            get(states[i], address(txs[i].sender)).balance >= txs[i].value

\* C3: validate_tx returns the error of the first failing check in the order
\* signature, sender = recipient, balance < value, nonce >= tx.nonce, returns
\* Ok exactly when all four pass, and leaves the snapshot as it was.
C3_ValidateFirstFailure ==
    pc \in {"validated", "applied"} =>
        LET account == vstate[address(vtx.sender)]
            sigOk == vtx.signature
            self == vtx.sender = vtx.to
            poor == account.balance < vtx.value
            stale == account.nonce >= vtx.nonce
        IN /\ ~sigOk => verdict = "Bad signature"
           /\ (sigOk /\ self) => verdict = "Tx to self"
           /\ (sigOk /\ ~self /\ poor) => verdict = "Insufficient balance"
           /\ (sigOk /\ ~self /\ ~poor /\ stale) => verdict = "Nonce too low"
           /\ (verdict = "Ok") <=> (sigOk /\ ~self /\ ~poor /\ ~stale)
           /\ vstate = genesis

\* a self transfer with a valid signature, too small a balance and a stale
\* nonce has been rejected as a self transfer
C3_Witness ==
    /\ pc = "validated"
    /\ verdict = "Tx to self"
    /\ vtx.signature
    /\ vstate[address(vtx.sender)].balance < vtx.value
    /\ vstate[address(vtx.sender)].nonce >= vtx.nonce

\* C4: the total balance of the authoritative snapshot is the same after
\* every batch as in the genesis snapshot.
C4_TotalConserved == Total(state) = Total(genesis)

\* C5: the Transitioning step produces n+1 snapshots for n admitted
\* transactions, starting with the authoritative snapshot before the batch,
\* and each snapshot differs from its predecessor only in the accounts of
\* the sender and the recipient of its transaction.
C5_ChainShape ==
    [][ (pc = "Transitioning" /\ pc' = "Proving") =>
          /\ Len(states') = Len(txs) + 1
          /\ states'[1] = state
          /\ \A i \in 1..Len(txs) :
               \A a \in Addresses \ {address(txs[i].sender), address(txs[i].to)} :
                   states'[i + 1][a] = states'[i][a] ]_vars

\* a chain of three snapshots has been produced, each step changing something
C5_Witness ==
    /\ pc = "Proving"
    /\ Len(txs) = 2
    /\ Len(states) = 3
    /\ states[1] # states[2]
    /\ states[2] # states[3]

\* C6: entry i of the collected results is the outcome of the proof request
\* of transaction i, whatever the order in which the requests resolved.
C6_ResultsAligned ==
    \A k \in 1..Len(proofs) :
        /\ proofs[k].request = k
        /\ proofs[k].result = tasks[k]

\* request 2 resolved before request 1 and both results have been collected
C6_Witness ==
    /\ order = << 2, 1 >>
    /\ Len(proofs) = 2

\* C7: when a proof request of the batch resolved to an error and every
\* request of the batch has resolved, the loop does not abort: the Ok proofs
\* before and after it are submitted and the loop goes on.
C7_PartialFailureGoesOn ==
    ( /\ Len(tasks) > 0
      /\ Len(proofs) = Len(tasks)
      /\ \E k \in 1..Len(tasks) : tasks[k] = "Err" )
    => pc # "panicked"

\* C8: after a settlement submission, acknowledged or failed, the submitter
\* continues with the next proof of the batch.
C8_SubmitFailureRecovered ==
    [][ pc = "AwaitingAck" => (pc' = "Submitting" /\ idx' = idx + 1) ]_vars

\* C9: no error raised inside the loop terminates it; it stops only when
\* the intake channel is closed.
C9_NoFatalError == pc # "panicked"

\* C10: cutting a batch empties the mempool, and the batch is exactly the
\* subsequence, in arrival order, of the buffered transactions that pass
\* validate_tx against the authoritative snapshot; the others are gone.
C10_DrainValid ==
    [][ pc = "Batching" =>
          LET Passes(t) == validate_tx(state, t) = "Ok"
          IN /\ mempool' = << >>
             /\ txs' = SelectSeq(mempool, Passes)
             /\ \A i \in 1..Len(mempool) :
                  ~Passes(mempool[i]) =>
                      \A j \in 1..Len(txs') : txs'[j] # mempool[i]
             /\ state' = state ]_vars

\* a batch was cut in which the first transaction was discarded and the
\* second admitted
C10_Witness ==
    /\ pc = "Transitioning"
    /\ mempool = << >>
    /\ dropped = 1
    /\ Len(txs) = 1
    /\ threshold = 2


\* C11: an arriving transaction is appended to the mempool; below the
\* threshold the loop returns to AwaitingTx with the snapshot unchanged, no
\* proof request launched and nothing submitted; a batch is cut only when
\* the mempool has reached the threshold.
C11_ArrivalBelowThreshold ==
    [][ received' = received + 1 =>
          /\ \E tx \in IntakeTxs : mempool' = Append(mempool, tx)
          /\ Len(mempool') < threshold =>
                /\ pc' = "AwaitingTx"
                /\ state' = state
                /\ tasks' = << >> /\ requests' = << >>
                /\ submitted' = << >> /\ inflight' = {}
          /\ pc' = "Batching" <=> Len(mempool') >= threshold ]_vars

\* C12: no submission of a batch is issued before every proof request of
\* the batch has resolved.
C12_JoinAllBarrier ==
    (pc \in {"Submitting", "AwaitingAck"} \/ submitted # << >> \/ inflight # {})
        => \A i \in 1..Len(tasks) : tasks[i] # "pending"

\* a submission is in flight for a batch of two whose second request
\* resolved first
C12_Witness ==
    /\ pc = "AwaitingAck"
    /\ Len(tasks) = 2
    /\ order = << 2, 1 >>

\* the requests of the submissions acknowledged so far
SubmittedRequests == [j \in 1..Len(submitted) |-> submitted[j][1].request]

\* C13: at most one submission is in flight, a submission is issued only
\* when every earlier Ok proof of the batch has been acknowledged, and the
\* proofs reach the settlement layer in the order of their transactions.
C13_SequentialSubmission ==
    /\ Cardinality(inflight) <= 1
    /\ \A i \in inflight :
          \A k \in 1..(i - 1) :
              proofs[k].result = "Ok" =>
                  \E j \in 1..Len(submitted) : SubmittedRequests[j] = k
    /\ \A j, k \in 1..Len(submitted) :
          j < k => SubmittedRequests[j] < SubmittedRequests[k]

\* the second proof of a batch is in flight after the first was acknowledged
C13_Witness ==
    /\ pc = "AwaitingAck"
    /\ inflight = {2}
    /\ Len(submitted) = 1

\* C14: the dispatcher launches one request per admitted transaction, and
\* request i carries transaction i, the snapshot before it was applied and
\* the snapshot apply_tx made of it; an empty batch launches none.
C14_RequestArguments ==
    [][ /\ (pc = "Transitioning" /\ pc' = "Proving") =>
              /\ Len(requests') = Len(txs)
              /\ Len(tasks') = Len(txs)
              /\ \A i \in 1..Len(txs) :
                    /\ requests'[i].tx = txs[i]
                    /\ requests'[i].pre = states'[i]
                    /\ requests'[i].post = states'[i + 1]
                    /\ requests'[i].post = apply_tx(requests'[i].pre, txs[i])
                    /\ i > 1 => requests'[i].pre = requests'[i - 1].post
              /\ Len(txs) > 0 => requests'[1].pre = state
        /\ pc \in {"Proving", "Submitting", "AwaitingAck"} =>
              /\ requests' \in {requests, << >>}
              /\ Len(tasks') = Len(requests') ]_vars

\* two requests have been launched over a chain of three distinct snapshots
C14_Witness ==
    /\ pc = "Proving"
    /\ Len(requests) = 2
    /\ requests[1].pre # requests[1].post
    /\ requests[2].pre # requests[2].post


\* what C15 says of the accounts of the sender and the recipient after
\* apply_tx, of the input snapshot, and of the transaction kind
ApplyEffect ==
    LET s == address(vtx.sender)
        t == address(vtx.to)
    IN /\ vpost[s].balance = vstate[s].balance - vtx.value
       /\ vpost[s].nonce = vtx.nonce
       /\ vpost[t].balance = vstate[t].balance + vtx.value
       /\ vpost[t].nonce = vstate[t].nonce
       /\ vstate = genesis
       /\ \A k \in TxKind : apply_tx(vstate, [vtx EXCEPT !.kind = k]) = vpost

\* the debit and the credit stay within the balance type
ApplyInRange ==
    /\ vstate[address(vtx.sender)].balance >= vtx.value
    /\ vstate[address(vtx.to)].balance + vtx.value <= MaxU256

\* C15 as stated: apply_tx on any transaction with distinct sender and
\* recipient returns a snapshot with the sender debited by tx.value and its
\* nonce set to tx.nonce, the recipient credited and its nonce unchanged,
\* the input snapshot intact and no dependence on tx.kind.
C15_ApplyEffectAlways ==
    /\ (pc = "applied" /\ vtx.sender # vtx.to) => ApplyEffect
    /\ (pc = "panicked") => vtx.sender = vtx.to

\* C15 as amended: the same, for a transaction with distinct sender and
\* recipient whose value does not exceed the sender's balance and whose
\* credit keeps the recipient's balance within the balance type; apply_tx
\* fails only outside this range.
C15_ApplyEffectInRange ==
    /\ (pc = "applied" /\ vtx.sender # vtx.to /\ ApplyInRange) => ApplyEffect
    /\ (pc = "panicked") => ~ApplyInRange

\* a deposit of a positive value between distinct accounts has been applied
\* within the range of the balance type
C15_Witness ==
    /\ pc = "applied"
    /\ vtx.sender # vtx.to
    /\ vtx.kind = "Deposit"
    /\ vtx.value > 0
    /\ ApplyInRange
    /\ vpost # vstate


\* C16: the authoritative snapshot changes only in the Transitioning step,
\* where it becomes the last snapshot of the chain, and it stays that
\* snapshot through Proving and Submitting and at the return to AwaitingTx,
\* whatever the proof requests and the submissions do.
C16_NoRollback ==
    [][ /\ state' # state => (pc = "Transitioning" /\ pc' = "Proving")
        /\ (pc = "Transitioning" /\ pc' = "Proving") =>
               state' = states'[Len(txs) + 1]
        /\ pc \in {"Proving", "Submitting", "AwaitingAck"} =>
               state' = states[Len(states)] ]_vars

\* the submit loop is over for a batch whose first proof request failed and
\* the authoritative snapshot is still the advanced one
C16_Witness ==
    /\ pc = "Submitting"
    /\ idx > Len(proofs)
    /\ Len(proofs) >= 1
    /\ proofs[1].result = "Err"
    /\ state = states[Len(states)]
    /\ state # states[1]


\* a proof task of the batch panicked or a submission was not acknowledged
ProgressHypothesisBroken ==
    \/ \E i \in 1..Len(tasks) : tasks[i] = "Panic"
    \/ pc = "panicked" /\ inflight # {}

\* C17: once a batch is cut, if every proof request resolves and every
\* submission is acknowledged the loop returns to AwaitingTx; and while a
\* proof request of the batch has not resolved the loop stays in Proving
\* with nothing of the batch submitted.
C17_BatchProgress ==
    /\ (pc = "Batching") ~> (pc = "AwaitingTx" \/ ProgressHypothesisBroken)
    /\ []( (\E i \in 1..Len(tasks) : tasks[i] = "pending") =>
              (pc = "Proving" /\ submitted = << >> /\ inflight = {}) )


\* C18: a transaction rejected at a batch cut is in neither the batch nor
\* the mempool afterwards, only the admitted transactions are applied,
\* proved and submitted, and when every transaction of the cut is rejected
\* the authoritative snapshot is unchanged and no proof request or
\* submission happens.
C18_RejectedDropped ==
    [][ /\ pc = "Batching" =>
              /\ mempool' = << >>
              /\ Len(txs') + dropped' = Len(mempool)
              /\ \A i \in 1..Len(txs') : validate_tx(state, txs'[i]) = "Ok"
              /\ \A i \in 1..Len(mempool) :
                    validate_tx(state, mempool[i]) # "Ok" =>
                        \A j \in 1..Len(txs') : txs'[j] # mempool[i]
        /\ (pc = "Transitioning" /\ pc' = "Proving") =>
              /\ Len(states') = Len(txs) + 1
              /\ \A i \in 1..Len(txs) :
                    states'[i + 1] = apply_tx(states'[i], txs[i])
              /\ Len(requests') = Len(txs)
              /\ Len(tasks') = Len(txs)
              /\ \A i \in 1..Len(txs) : requests'[i].tx = txs[i]
              /\ txs = << >> => state' = state
        /\ pc \in {"Proving", "Submitting", "AwaitingAck"} =>
              /\ txs' \in {txs, << >>}
              /\ mempool' = << >>
              /\ Len(proofs') <= Len(txs)
              /\ \A j \in 1..Len(submitted') :
                    submitted'[j][1].request \in 1..Len(txs)
              /\ txs = << >> => (submitted' = << >> /\ inflight' = {}) ]_vars

\* a cut in which every transaction was rejected has gone through Proving
C18_Witness ==
    /\ pc = "Submitting"
    /\ threshold = 2
    /\ dropped = 2
    /\ txs = << >>
    /\ tasks = << >>
    /\ state = genesis


\* the requests whose proof has been handed to submit_block
Issued == { SubmittedRequests[j] : j \in 1..Len(submitted) } \cup inflight

\* the handling of the batch is over: the submit loop has ended or the loop
\* has stopped
BatchOver ==
    \/ pc = "Submitting" /\ idx > Len(proofs)
    \/ pc = "panicked"

\* C19: every proof request that resolved Ok is submitted exactly once, in a
\* call that carries that single proof, a request that resolved Err is never
\* submitted, and the calls of a batch number the Ok results, at most the
\* number of admitted transactions.
C19_EveryOkSubmittedOnce ==
    /\ \A j \in 1..Len(submitted) :
          /\ Len(submitted[j]) = 1
          /\ submitted[j][1].result = "Ok"
          /\ tasks[submitted[j][1].request] = "Ok"
          /\ \A k \in 1..Len(submitted) :
                SubmittedRequests[k] = SubmittedRequests[j] => k = j
    /\ \A i \in inflight : tasks[i] = "Ok"
    /\ Cardinality(Issued) <= Len(txs)
    /\ BatchOver =>
          /\ \A i \in 1..Len(tasks) : tasks[i] = "Ok" => i \in Issued
          /\ Cardinality(Issued) =
                Cardinality({ i \in 1..Len(tasks) : tasks[i] = "Ok" })


\* C20: the (pre, post) pairs of the proof requests launched over the run
\* form one chain from the genesis snapshot: the first request of a batch
\* starts at the post snapshot of the request launched just before it (the
\* genesis snapshot when there is none), each later request starts where
\* the previous one ends, the last post snapshot is the authoritative
\* snapshot, and a batch launches its requests only when no request or
\* submission of an earlier batch is outstanding.
C20_UnbrokenChain ==
    /\ [](lastPost = state)
    /\ []( requests # << >> =>
              /\ requests[Len(requests)].post = lastPost
              /\ \A i \in 2..Len(requests) :
                    requests[i].pre = requests[i - 1].post )
    /\ [][ /\ lastPost' # lastPost =>
                (pc = "Transitioning" /\ requests' # << >>)
           /\ (pc = "Transitioning" /\ pc' = "Proving" /\ requests' # << >>) =>
                /\ requests'[1].pre = lastPost
                /\ lastPost' = state'
                /\ tasks = << >> /\ inflight = {} /\ submitted = << >> ]_vars
    /\ [](received = 0 => lastPost = genesis)

\* a later batch has launched a request that starts from a snapshot other
\* than the genesis snapshot
C20_Witness ==
    /\ pc = "Proving"
    /\ received >= 2
    /\ requests # << >>
    /\ requests[1].pre # genesis
    /\ requests[1].pre # requests[1].post

====
